---- MODULE Spec2Model ----
(***************************************************************************)
(* The join-and-categorize pipeline of emoji-cheat-sheet-rs (src/main.rs): *)
(* get_github_emoji_id_map, categorize_github_emoji_ids and the key        *)
(* iteration of generate_cheat_sheet.                                      *)
(*                                                                         *)
(* A HashMap is a function; iterating one (into_iter, keys, values) has no *)
(* specified order, so every iteration is a nondeterministic choice of the *)
(* next element or of a permutation.  An index past the end of a Vec       *)
(* panics: the run ends in pc = "panic" and returns nothing.               *)
(***************************************************************************)
EXTENDS Integers, Sequences, FiniteSets, TLC

\* Number of entries of the JSON object of the shortcode endpoint.
MaxEntries == 2
\* Number of <tr> rows of the chart that are headings or glyph rows (a row
\* with neither a bighead/mediumhead th nor a chars cell changes nothing).
MaxEvents == 4

\* Shortcodes are opaque: the i-th entry of the JSON object has the i-th id.
IdPool == <<"thumbsup", "+1", "smile", "tada">>

\* Codepoints: two base characters and one spacing-combining mark (Mc).
SpacingMarks == {"m"}
\* Codepoint sequences of the /unicode/ URLs.
CodePointSeqs == {<<"x">>, <<"y">>, <<"m", "y">>}
\* Texts of the chars cells of the chart.
GlyphTexts == {<<"x">>, <<"m", "y">>}
\* File stems of the URLs without a /unicode/ segment.
CustomNames == {"octocat", "shipit"}
\* Heading texts after to_title_case.
BigTitles == {"A", "GitHub Custom Emoji"}
MediumTitles == {"S", "T"}

VARIABLES
    json,                  \* the JSON object as received: sequence of [id, url]
    github_emoji_id_map,   \* HashMap<String, EmojiLiteral>
    todo,                  \* ids the loop of line 106 has not visited yet
    emoji_literal_to_github_emoji_ids_map,              \* key_to_ids
    github_specific_emoji_uri_to_github_emoji_ids_map,  \* custom_to_ids
    categorized_emoji_ids, \* category -> subcategory -> list of id groups
    category_stack,
    chart,                 \* the chart rows read so far, as events
    categories,            \* generate_cheat_sheet: keys() of the tree
    subcategories,         \* generate_cheat_sheet: keys() of each category
    pc                     \* "index", "chart", "done", "rendered", "panic"

vars == <<json, github_emoji_id_map, todo, emoji_literal_to_github_emoji_ids_map,
          github_specific_emoji_uri_to_github_emoji_ids_map, categorized_emoji_ids,
          category_stack, chart, categories, subcategories, pc>>

----------------------------------------------------------------------------
\* Maps and sequences

EmptyMap == [k \in {} |-> k]

Put(m, k, v) == [x \in DOMAIN m \cup {k} |-> IF x = k THEN v ELSE m[x]]

Range(s) == {s[i] : i \in DOMAIN s}

\* The orders in which a HashMap may yield the keys S.
Orders(S) == {s \in [1..Cardinality(S) -> S] : \A i, j \in DOMAIN s : s[i] = s[j] => i = j}

RECURSIVE Flatten(_)
Flatten(ss) == IF ss = <<>> THEN <<>> ELSE Head(ss) \o Flatten(Tail(ss))

----------------------------------------------------------------------------
\* get_github_emoji_id_map

Urls ==
    [unicode : {TRUE}, code_points : CodePointSeqs, stem : {""}]
    \cup [unicode : {FALSE}, code_points : {<<>>}, stem : CustomNames]

EmojiLiteralOf(url) ==
    IF url.unicode
    THEN [tag |-> "Unicode", code_points |-> url.code_points, uri |-> ""]
    ELSE [tag |-> "Custom", code_points |-> <<>>, uri |-> url.stem]

JsonObjects ==
    UNION {{j \in [1..n -> [id : Range(IdPool), url : Urls]] : \A i \in 1..n : j[i].id = IdPool[i]}
           : n \in 0..MaxEntries}

IdMapOf(j) ==
    [id \in {j[i].id : i \in DOMAIN j} |->
        EmojiLiteralOf((CHOOSE e \in Range(j) : e.id = id).url)]

----------------------------------------------------------------------------
\* categorize_github_emoji_ids: the two lookup maps

is_mark_spacing_combining(c) == c \in SpacingMarks

\* A variant that strips the spacing marks from the codepoints of the shortcode.
EmojiLiteralStrStripped(emoji_code_points) ==
    SelectSeq(emoji_code_points, LAMBDA c : ~is_mark_spacing_combining(c))

EmojiLiteralStr(emoji_code_points) == emoji_code_points

\* A variant that inserts a fresh list instead of pushing onto the entry.
InsertEntry(m, k, emoji_id) == Put(m, k, <<emoji_id>>)

PushEntry(m, k, emoji_id) ==
    Put(m, k, Append(IF k \in DOMAIN m THEN m[k] ELSE <<>>, emoji_id))

IndexEntry(emoji_id) ==
    /\ pc = "index"
    /\ emoji_id \in todo
    /\ LET emoji_literal == github_emoji_id_map[emoji_id] IN
         IF emoji_literal.tag = "Unicode"
         THEN /\ emoji_literal_to_github_emoji_ids_map' =
                    PushEntry(emoji_literal_to_github_emoji_ids_map,
                              EmojiLiteralStr(emoji_literal.code_points), emoji_id)
              /\ UNCHANGED github_specific_emoji_uri_to_github_emoji_ids_map
         ELSE /\ github_specific_emoji_uri_to_github_emoji_ids_map' =
                    PushEntry(github_specific_emoji_uri_to_github_emoji_ids_map,
                              emoji_literal.uri, emoji_id)
              /\ UNCHANGED emoji_literal_to_github_emoji_ids_map
    /\ todo' = todo \ {emoji_id}
    /\ pc' = IF todo' = {} THEN "chart" ELSE "index"
    /\ UNCHANGED <<json, github_emoji_id_map, categorized_emoji_ids, category_stack,
                   chart, categories, subcategories>>

----------------------------------------------------------------------------
\* categorize_github_emoji_ids: the chart loop

BigHeadEvent(title) == [kind |-> "bighead", title |-> title, chars |-> <<>>]
MediumHeadEvent(title) == [kind |-> "mediumhead", title |-> title, chars |-> <<>>]
RowEvent(text) == [kind |-> "row", title |-> "", chars |-> text]

\* graphemes(true): a spacing mark extends the cluster before it.
RECURSIVE Graphemes(_)
Graphemes(text) ==
    IF text = <<>> THEN <<>>
    ELSE LET ext == {n \in 1..Len(text) :
                        \A i \in 2..n : is_mark_spacing_combining(text[i])}
             n == CHOOSE k \in ext : \A l \in ext : l <= k
         IN <<SubSeq(text, 1, n)>> \o Graphemes(SubSeq(text, n + 1, Len(text)))

RowKey(text) ==
    Flatten(SelectSeq(Graphemes(text),
                      LAMBDA g : \E i \in DOMAIN g : ~is_mark_spacing_combining(g[i])))

BigHeadStack(stack, title) == <<title>>

BigHeadTree(tree, title) == Put(tree, title, EmptyMap)

BigHead(title) ==
    /\ pc = "chart"
    /\ Len(chart) < MaxEvents
    /\ category_stack' = BigHeadStack(category_stack, title)
    /\ categorized_emoji_ids' = BigHeadTree(categorized_emoji_ids, title)
    /\ chart' = Append(chart, BigHeadEvent(title))
    /\ UNCHANGED <<json, github_emoji_id_map, todo, emoji_literal_to_github_emoji_ids_map,
                   github_specific_emoji_uri_to_github_emoji_ids_map, categories,
                   subcategories, pc>>

MediumHeadStack(stack, title) ==
    Append(IF Len(stack) > 1 THEN SubSeq(stack, 1, Len(stack) - 1) ELSE stack, title)

MediumHeadTree(tree, stack, title) ==
    Put(tree, stack[1],
        Put(IF stack[1] \in DOMAIN tree THEN tree[stack[1]] ELSE EmptyMap, title, <<>>))

MediumHead(title) ==
    /\ pc = "chart"
    /\ Len(chart) < MaxEvents
    /\ category_stack' = MediumHeadStack(category_stack, title)
    /\ categorized_emoji_ids' =
          MediumHeadTree(categorized_emoji_ids, category_stack', title)
    /\ chart' = Append(chart, MediumHeadEvent(title))
    /\ UNCHANGED <<json, github_emoji_id_map, todo, emoji_literal_to_github_emoji_ids_map,
                   github_specific_emoji_uri_to_github_emoji_ids_map, categories,
                   subcategories, pc>>

\* A variant that puts the group at the front of the list.
RowTreeFront(tree, stack, github_emoji_ids) ==
    LET subs == IF stack[1] \in DOMAIN tree THEN tree[stack[1]] ELSE EmptyMap
        groups == IF stack[2] \in DOMAIN subs THEN subs[stack[2]] ELSE <<>>
    IN Put(tree, stack[1], Put(subs, stack[2], <<github_emoji_ids>> \o groups))

RowTree(tree, stack, github_emoji_ids) ==
    LET category == stack[1]
        subcategory == stack[2]
        subs == IF category \in DOMAIN tree THEN tree[category] ELSE EmptyMap
        groups == IF subcategory \in DOMAIN subs THEN subs[subcategory] ELSE <<>>
    IN Put(tree, category, Put(subs, subcategory, Append(groups, github_emoji_ids)))

Row(text) ==
    /\ pc = "chart"
    /\ Len(chart) < MaxEvents
    /\ chart' = Append(chart, RowEvent(text))
    /\ LET key == RowKey(text) IN
         IF key \in DOMAIN emoji_literal_to_github_emoji_ids_map
         THEN IF Len(category_stack) < 2
              THEN \* category_stack[0] or category_stack[1] is out of bounds
                   /\ pc' = "panic"
                   /\ UNCHANGED categorized_emoji_ids
              ELSE /\ categorized_emoji_ids' =
                         RowTree(categorized_emoji_ids, category_stack,
                                 emoji_literal_to_github_emoji_ids_map[key])
                   /\ UNCHANGED pc
         ELSE UNCHANGED <<categorized_emoji_ids, pc>>
    /\ UNCHANGED <<json, github_emoji_id_map, todo, emoji_literal_to_github_emoji_ids_map,
                   github_specific_emoji_uri_to_github_emoji_ids_map, category_stack,
                   categories, subcategories>>

CustomCategory == "GitHub Custom Emoji"

\* A variant that adds the subcategory "" to a category already in the tree.
CustomBucketMerged(tree, custom_emojis) ==
    Put(tree, CustomCategory,
        Put(IF CustomCategory \in DOMAIN tree THEN tree[CustomCategory] ELSE EmptyMap,
            "", custom_emojis))

CustomBucket(tree, custom_emojis) ==
    Put(tree, CustomCategory, Put(EmptyMap, "", custom_emojis))

\* The chart has no more rows: attach the custom bucket and return Ok(tree).
Finish ==
    /\ pc = "chart"
    /\ LET custom == github_specific_emoji_uri_to_github_emoji_ids_map IN
         IF DOMAIN custom # {}
         THEN \E order \in Orders(DOMAIN custom) :
                categorized_emoji_ids' =
                    CustomBucket(categorized_emoji_ids,
                                 [i \in DOMAIN order |-> custom[order[i]]])
         ELSE UNCHANGED categorized_emoji_ids
    /\ pc' = "done"
    /\ UNCHANGED <<json, github_emoji_id_map, todo, emoji_literal_to_github_emoji_ids_map,
                   github_specific_emoji_uri_to_github_emoji_ids_map, category_stack,
                   chart, categories, subcategories>>

----------------------------------------------------------------------------
\* generate_cheat_sheet: the order of the headings

Render ==
    /\ pc = "done"
    /\ categories' \in Orders(DOMAIN categorized_emoji_ids)
    /\ subcategories' \in
          {f \in [DOMAIN categorized_emoji_ids ->
                    UNION {Orders(DOMAIN categorized_emoji_ids[c]) :
                             c \in DOMAIN categorized_emoji_ids}] :
              \A c \in DOMAIN f : Range(f[c]) = DOMAIN categorized_emoji_ids[c]}
    /\ pc' = "rendered"
    /\ UNCHANGED <<json, github_emoji_id_map, todo, emoji_literal_to_github_emoji_ids_map,
                   github_specific_emoji_uri_to_github_emoji_ids_map, categorized_emoji_ids,
                   category_stack, chart>>

----------------------------------------------------------------------------

Init ==
    /\ json \in JsonObjects
    /\ github_emoji_id_map = IdMapOf(json)
    /\ todo = DOMAIN github_emoji_id_map
    /\ emoji_literal_to_github_emoji_ids_map = EmptyMap
    /\ github_specific_emoji_uri_to_github_emoji_ids_map = EmptyMap
    /\ categorized_emoji_ids = EmptyMap
    /\ category_stack = <<>>
    /\ chart = <<>>
    /\ categories = <<>>
    /\ subcategories = EmptyMap
    /\ pc = IF json = <<>> THEN "chart" ELSE "index"

Next ==
    \/ \E emoji_id \in Range(IdPool) : IndexEntry(emoji_id)
    \/ \E title \in BigTitles : BigHead(title)
    \/ \E title \in MediumTitles : MediumHead(title)
    \/ \E text \in GlyphTexts : Row(text)
    \/ Finish
    \/ Render

Spec == Init /\ [][Next]_vars

\* categorize_github_emoji_ids alone, up to the tree it returns.
NextCategorize ==
    \/ \E emoji_id \in Range(IdPool) : IndexEntry(emoji_id)
    \/ \E title \in BigTitles : BigHead(title)
    \/ \E title \in MediumTitles : MediumHead(title)
    \/ \E text \in GlyphTexts : Row(text)
    \/ Finish

Categorize == Init /\ [][NextCategorize]_vars

----------------------------------------------------------------------------
\* Vocabulary of the properties

\* The key of the specification: clusters made up only of spacing marks dropped.
normalize(s) ==
    Flatten(SelectSeq(Graphemes(s), LAMBDA g : ~(Range(g) \subseteq SpacingMarks)))

Returned == pc \in {"done", "rendered"}

SourceIds == {json[i].id : i \in DOMAIN json}
SourceIndex(id) == CHOOSE i \in DOMAIN json : json[i].id = id
IsUnicode(id) == github_emoji_id_map[id].tag = "Unicode"
IsCustom(id) == github_emoji_id_map[id].tag = "Custom"
UnicodeIds == {id \in SourceIds : IsUnicode(id)}
CustomIds == {id \in SourceIds : IsCustom(id)}
CodePoints(id) == github_emoji_id_map[id].code_points
CustomName(id) == github_emoji_id_map[id].uri

\* The places of the id groups of a tree, and of the ids in them.
Slots(tree) ==
    UNION {UNION {{<<c, s, i>> : i \in DOMAIN tree[c][s]} : s \in DOMAIN tree[c]} : c \in DOMAIN tree}
GroupAt(tree, slot) == tree[slot[1]][slot[2]][slot[3]]
SlotsOf(tree, id) == {slot \in Slots(tree) : id \in Range(GroupAt(tree, slot))}
Places(tree, id) ==
    UNION {{<<slot, j>> : j \in {n \in DOMAIN GroupAt(tree, slot) : GroupAt(tree, slot)[n] = id}}
           : slot \in Slots(tree)}

IsBig(k) == chart[k].kind = "bighead"
IsMedium(k) == chart[k].kind = "mediumhead"
IsRow(k) == chart[k].kind = "row"
Bigs == {k \in DOMAIN chart : IsBig(k)}
\* The last BeginCategory event before event k (0: none).
BigBefore(k) ==
    LET b == {j \in Bigs : j < k} IN
    IF b = {} THEN 0 ELSE CHOOSE j \in b : \A l \in b : l <= j
\* The last BeginSubcategory event before event k and after BigBefore(k) (0: none).
MediumBefore(k) ==
    LET m == {j \in DOMAIN chart : IsMedium(j) /\ j < k /\ j > BigBefore(k)} IN
    IF m = {} THEN 0 ELSE CHOOSE j \in m : \A l \in m : l <= j
\* The rows of the chart whose normalized text is key.
RowsWithKey(key) == {k \in DOMAIN chart : IsRow(k) /\ normalize(chart[k].chars) = key}

Stack1 == category_stack[1]
Stack2 == category_stack[2]
\* The step reads event e of the chart.
Reads(e) == pc = "chart" /\ chart' = Append(chart, e)

----------------------------------------------------------------------------
----------------------------------------------------------------------------
\* The first BeginCategory event with title c, and the first BeginSubcategory
\* event with title s read while c is the current category (0: none).
FirstBig(c) ==
    LET b == {k \in Bigs : chart[k].title = c} IN
    IF b = {} THEN 0 ELSE CHOOSE k \in b : \A l \in b : k <= l
FirstMedium(c, s) ==
    LET m == {k \in DOMAIN chart :
                 /\ IsMedium(k) /\ chart[k].title = s
                 /\ BigBefore(k) # 0 /\ chart[BigBefore(k)].title = c} IN
    IF m = {} THEN 0 ELSE CHOOSE k \in m : \A l \in m : k <= l

\* C2: the rendered headings are in chart order: categories by their first
\* BeginCategory event with the custom bucket last, the subcategories of a
\* category by their first BeginSubcategory event in it.
C2_HeadingsInChartOrder ==
    pc = "rendered" =>
        /\ \A i, j \in DOMAIN categories :
              (/\ i < j
               /\ FirstBig(categories[i]) # 0
               /\ FirstBig(categories[j]) # 0
               /\ CustomCategory \notin {categories[i], categories[j]})
              => FirstBig(categories[i]) < FirstBig(categories[j])
        /\ (CustomIds # {} /\ categories # <<>>)
              => categories[Len(categories)] = CustomCategory
        /\ \A c \in DOMAIN subcategories : \A i, j \in DOMAIN subcategories[c] :
              (/\ i < j
               /\ FirstMedium(c, subcategories[c][i]) # 0
               /\ FirstMedium(c, subcategories[c][j]) # 0)
              => FirstMedium(c, subcategories[c][i]) < FirstMedium(c, subcategories[c][j])

----------------------------------------------------------------------------
\* The row just read was matched to id: a group holding id was appended to
\* the current subcategory.
Matched(id) ==
    /\ Stack1 \in DOMAIN categorized_emoji_ids'
    /\ Stack2 \in DOMAIN categorized_emoji_ids'[Stack1]
    /\ Len(categorized_emoji_ids'[Stack1][Stack2])
          = Len(categorized_emoji_ids[Stack1][Stack2]) + 1
    /\ id \in Range(categorized_emoji_ids'[Stack1][Stack2]
                        [Len(categorized_emoji_ids'[Stack1][Stack2])])

----------------------------------------------------------------------------
\* C4: in every id group of a returned tree the ids are in the order of the
\* shortcode source.
C4_GroupInSourceOrder ==
    Returned =>
        \A slot \in Slots(categorized_emoji_ids) :
            LET group == GroupAt(categorized_emoji_ids, slot) IN
            \A p, q \in DOMAIN group :
                p < q => SourceIndex(group[p]) < SourceIndex(group[q])

----------------------------------------------------------------------------
\* C5: a BeginCategory with a title seen before leaves what that category has
\* accumulated in place; a BeginSubcategory with a title already in the current
\* category leaves the groups of that subcategory in place.
C5_RepeatedHeadingContinues ==
    [][/\ \A title \in BigTitles :
             (Reads(BigHeadEvent(title)) /\ FirstBig(title) # 0)
                => /\ title \in DOMAIN categorized_emoji_ids'
                   /\ categorized_emoji_ids'[title] = categorized_emoji_ids[title]
       /\ \A title \in MediumTitles :
             (/\ Reads(MediumHeadEvent(title))
              /\ category_stack # <<>>
              /\ Stack1 \in DOMAIN categorized_emoji_ids
              /\ title \in DOMAIN categorized_emoji_ids[Stack1])
                => /\ title \in DOMAIN categorized_emoji_ids'[Stack1]
                   /\ categorized_emoji_ids'[Stack1][title]
                         = categorized_emoji_ids[Stack1][title]]_vars

----------------------------------------------------------------------------
\* C6: a row read before any BeginCategory, or before any BeginSubcategory of
\* the current category, is skipped: the tree is unchanged and the run goes on.
C6_UnplacedRowSkipped ==
    [][\A g \in GlyphTexts :
          (/\ Reads(RowEvent(g))
           /\ \/ BigBefore(Len(chart) + 1) = 0
              \/ MediumBefore(Len(chart) + 1) = 0)
          => /\ pc' = "chart"
             /\ categorized_emoji_ids' = categorized_emoji_ids
             /\ category_stack' = category_stack]_vars

----------------------------------------------------------------------------
\* The BeginSubcategory events read before any BeginCategory.
OrphanMediums == {k \in DOMAIN chart : IsMedium(k) /\ BigBefore(k) = 0}

\* C7: a BeginSubcategory read before any BeginCategory is fatal: no tree is
\* returned and its title does not become a category of the tree.
C7_OrphanSubcategoryFatal ==
    \A k \in OrphanMediums :
        /\ ~Returned
        /\ (FirstBig(chart[k].title) = 0 /\ chart[k].title # CustomCategory)
              => chart[k].title \notin DOMAIN categorized_emoji_ids

----------------------------------------------------------------------------
\* The custom category has the one subcategory "", with one group per custom
\* name, holding the ids with that name.
CustomBucketShape ==
    /\ CustomCategory \in DOMAIN categorized_emoji_ids
    /\ DOMAIN categorized_emoji_ids[CustomCategory] = {""}
    /\ LET groups == categorized_emoji_ids[CustomCategory][""] IN
         /\ Len(groups) = Cardinality({CustomName(id) : id \in CustomIds})
         /\ \A name \in {CustomName(id) : id \in CustomIds} :
               \E i \in DOMAIN groups :
                   /\ groups[i] = github_specific_emoji_uri_to_github_emoji_ids_map[name]
                   /\ Range(groups[i]) = {id \in CustomIds : CustomName(id) = name}
                   /\ Len(groups[i]) = Cardinality(Range(groups[i]))

\* C8 as stated: a returned tree has the category "GitHub Custom Emoji" iff
\* the source has a Custom entry; the category then has the one subcategory
\* "", whose groups are those of custom_to_ids: one per custom name, holding
\* the ids with that name.
C8_CustomBucketIffCustomEntry ==
    Returned =>
        /\ CustomCategory \in DOMAIN categorized_emoji_ids <=> CustomIds # {}
        /\ CustomIds # {} => CustomBucketShape

\* C8 amended: when the source has a Custom entry the returned tree has the
\* category with that shape; when it has none, the tree has a category of
\* that name only if a chart heading has that title.
C8_CustomBucketOfCustomEntries ==
    Returned =>
        /\ CustomIds # {} => CustomBucketShape
        /\ (CustomIds = {} /\ CustomCategory \in DOMAIN categorized_emoji_ids)
              => \E k \in DOMAIN chart : ~IsRow(k) /\ chart[k].title = CustomCategory

\* C8 witness: a returned custom bucket that replaced a chart category of the
\* same name and its subcategory.
C8_Witness ==
    /\ Returned
    /\ CustomIds # {}
    /\ \E k \in Bigs :
          /\ chart[k].title = CustomCategory
          /\ k < Len(chart)
          /\ IsMedium(k + 1)
    /\ CustomBucketShape

----------------------------------------------------------------------------
\* C9: the stack has depth at most 2; index 0 is the title of the most recent
\* BeginCategory; at depth 2, index 1 is the title of the most recent
\* BeginSubcategory after that BeginCategory.
C9_StackIsCurrentHeadings ==
    /\ Len(category_stack) <= 2
    /\ category_stack # <<>> =>
          /\ BigBefore(Len(chart) + 1) # 0
          /\ Stack1 = chart[BigBefore(Len(chart) + 1)].title
    /\ Len(category_stack) = 2 =>
          /\ MediumBefore(Len(chart) + 1) # 0
          /\ Stack2 = chart[MediumBefore(Len(chart) + 1)].title

----------------------------------------------------------------------------
\* The stack, the lookup maps and the control state are left alone.
RestUnchanged ==
    /\ category_stack' = category_stack
    /\ emoji_literal_to_github_emoji_ids_map' = emoji_literal_to_github_emoji_ids_map
    /\ github_specific_emoji_uri_to_github_emoji_ids_map'
          = github_specific_emoji_uri_to_github_emoji_ids_map
    /\ pc' = pc

\* C10: a row whose normalized key k is in key_to_ids, read while a category
\* c and a subcategory s of c are current, appends the one group key_to_ids[k]
\* at the end of Categorized[c][s] and changes nothing else; a row whose key
\* is not in key_to_ids changes nothing.
C10_RowAppendsOneGroup ==
    [][\A g \in GlyphTexts :
          Reads(RowEvent(g)) =>
              LET k == normalize(g)
                  key_to_ids == emoji_literal_to_github_emoji_ids_map
              IN /\ (/\ k \in DOMAIN key_to_ids
                     /\ Len(category_stack) = 2
                     /\ Stack1 \in DOMAIN categorized_emoji_ids
                     /\ Stack2 \in DOMAIN categorized_emoji_ids[Stack1])
                       => /\ categorized_emoji_ids' =
                                [categorized_emoji_ids EXCEPT ![Stack1][Stack2] =
                                    Append(@, key_to_ids[k])]
                          /\ RestUnchanged
                 /\ k \notin DOMAIN key_to_ids
                       => /\ categorized_emoji_ids' = categorized_emoji_ids
                          /\ RestUnchanged]_vars

\* C10 witness: two rows with different keys were appended, in row order, to
\* one subcategory.
C10_Witness ==
    /\ pc = "chart"
    /\ Len(category_stack) = 2
    /\ Len(chart) >= 2
    /\ IsRow(Len(chart)) /\ IsRow(Len(chart) - 1)
    /\ LET groups == categorized_emoji_ids[Stack1][Stack2]
           key_to_ids == emoji_literal_to_github_emoji_ids_map
       IN /\ Len(groups) = 2
          /\ groups[1] # groups[2]
          /\ normalize(chart[Len(chart) - 1].chars) \in DOMAIN key_to_ids
          /\ normalize(chart[Len(chart)].chars) \in DOMAIN key_to_ids
          /\ groups[1] = key_to_ids[normalize(chart[Len(chart) - 1].chars)]
          /\ groups[2] = key_to_ids[normalize(chart[Len(chart)].chars)]

====
